---- MODULE Spec2Model ----
(***************************************************************************)
(* tinyclaw: a terminal-session gateway.                                   *)
(*   TerminalAgent       (src/agents/terminal_agent.py)                    *)
(*   WebTerminalChannel  (src/channels/web_terminal_channel.py)            *)
(*   Gateway             (src/core/gateway.py)                             *)
(* The program runs on one asyncio event loop: a coroutine runs without    *)
(* interruption from one suspending await to the next, so every action     *)
(* below is the code between two suspension points of one coroutine.       *)
(***************************************************************************)
EXTENDS Integers, Sequences, FiniteSets, TLC

\* ------------------------------------------------------------------ bounds
MaxLimit == 3        \* history_limit values explored: 0..MaxLimit
MaxFeed == 3         \* on_agent_data calls explored by SpecHist

None == 0            \* Python's None, for every Optional reference

Min(a, b) == IF a < b THEN a ELSE b
Max(a, b) == IF a > b THEN a ELSE b

\* ------------------------------------------------------------------- text
\* A text (str) or a byte string (bytes) is a sequence of one-character tokens.
ESC == "ESC"
BadByte == "xFF"     \* a byte that is not valid UTF-8
NL == "NL"

\* "\x1b[?1;2c" and "[?1;2c": the device-attributes responses the filter drops
NoiseCsi == <<ESC, "[", "?", "1", ";", "2", "c">>
NoiseBare == <<"[", "?", "1", ";", "2", "c">>

\* b"\n[agent exited]\n"
AgentExited == <<NL, "[", "a", "g", "e", "n", "t", " ", "e", "x", "i", "t", "e", "d", "]", NL>>

StartsWith(s, pat) ==
    /\ Len(pat) <= Len(s)
    /\ SubSeq(s, 1, Len(pat)) = pat

\* The characters are ASCII but for one, EAcute, whose UTF-8 encoding is the
\* two bytes <<ByteC3, ByteA9>>; BadByte is valid nowhere.
EAcute == "e'"
ByteC3 == "xC3"
ByteA9 == "xA9"

\* bytes.decode(errors="ignore"): undecodable bytes are dropped
RECURSIVE Decode(_)
Decode(data) ==
    IF data = <<>> THEN <<>>
    ELSE IF StartsWith(data, <<ByteC3, ByteA9>>)
         THEN <<EAcute>> \o Decode(SubSeq(data, 3, Len(data)))
    ELSE IF Head(data) \in {BadByte, ByteC3, ByteA9} THEN Decode(Tail(data))
    ELSE <<Head(data)>> \o Decode(Tail(data))

\* str.encode(): every character becomes its UTF-8 bytes
RECURSIVE Encode(_)
Encode(text) ==
    IF text = <<>> THEN <<>>
    ELSE (IF Head(text) = EAcute THEN <<ByteC3, ByteA9>> ELSE <<Head(text)>>)
         \o Encode(Tail(text))

\* str.replace(pat, ""): non-overlapping occurrences, scanned left to right
RECURSIVE Remove(_, _)
Remove(s, pat) ==
    IF Len(s) < Len(pat) THEN s
    ELSE IF StartsWith(s, pat) THEN Remove(SubSeq(s, Len(pat) + 1, Len(s)), pat)
    ELSE <<Head(s)>> \o Remove(Tail(s), pat)

_filter_history_noise(text) == Remove(Remove(text, NoiseCsi), NoiseBare)

\* s[i:] of Python, for any integer i
SliceFrom(s, i) ==
    LET n == Len(s)
        start == IF i < 0 THEN Max(n + i, 0) ELSE Min(i, n)
    IN SubSeq(s, start + 1, n)

\* on_agent_data's update of self._history (lines 44-46)
AppendHistory(history, limit, text) ==
    LET h == history \o _filter_history_noise(text)
    IN IF Len(h) > limit THEN SliceFrom(h, 0 - limit) ELSE h


\* -------------------------------------------------------------- the state
MaxAgentObjs == 2    \* TerminalAgent objects constructed in one run
MaxChanObjs == 3     \* WebTerminalChannel objects constructed in one run
MaxProcs == 2        \* OS processes spawned in one run
MaxOut == 2          \* output chunks one process writes before it ends
MaxIn == 1           \* send_input calls a direct caller makes on one process
MaxMsgs == 2         \* messages written to one process, and sent by the clients
MaxCalls == 2        \* API calls in flight at once
MaxTransports == 3   \* WebSocket connections made in one run
MaxDrops == 1        \* clients that go away or send a bad frame in one run
MaxRegTransports == 1 \* connections made while the registry is exercised
MaxPumpTransports == 2 \* connections made while open() and close() are exercised

AgentObjs == 1..MaxAgentObjs
ChanObjs == 1..MaxChanObjs
Transports == 1..MaxTransports
AgentIds == {"a1", "a2"}
ChanIds == {"c1", "c2"}

\* what the host offers (os.name, and whether winpty could be imported)
Platforms == {"posix", "nt_pty", "nt_nopty"}
\* the shell an agent is configured with; "nosuch" is not an executable
Shells == {"bash", "codex", "nosuch"}

BadChar == "uD800"   \* a character str.encode cannot encode
IsEncodable(ch) == ch # BadChar
\* str.encode(errors="ignore"): unencodable characters are dropped
EncodeIgnore(text) == Encode(SelectSeq(text, IsEncodable))

\* what the k-th read of a process's output returns: bytes from a pipe, text
\* from a pty
OutChunk(k) == IF k % 2 = 1 THEN <<"a">> ELSE <<"b", BadByte>>
OutText(k) == IF k % 2 = 1 THEN <<"a">> ELSE <<"b", BadChar>>
\* the k-th message the clients send: no two are the same
ClientText(k) == [i \in 1..k |-> IF i = k THEN EAcute ELSE "x"]
\* the bytes a caller may pass to send_input
InputData == {<<"x">>, <<"y", BadByte>>}

VARIABLES
    platform,        \* the host: one of Platforms
    procs,           \* the OS processes spawned so far, by pid
    a_made,          \* agent objects constructed so far
    a_agent_id,      \* Agent.agent_id
    a_shell,         \* Agent.shell
    a_process,       \* Agent.process: None or a pid (pipe backend)
    a_pty_process,   \* Agent.pty_process: None or a pid (pty backend)
    a_queue,         \* Agent._queue
    a_reader_task,   \* Agent._reader_task and the state of that task
    a_produced,      \* every chunk the agent's reader has put, in order
    c_made,          \* channel objects constructed so far
    c_channel_id,    \* Channel.channel_id
    c_agent_id,      \* Channel.agent_id
    c_agent,         \* Channel.agent: None or an agent object
    c_websocket,     \* Channel.websocket: None or a transport
    c_pump_task,     \* Channel._pump_task and the state of that task
    c_history,       \* Channel._history
    c_history_limit, \* Channel._history_limit
    c_fed,           \* the filtered text of every chunk on_agent_data got
    c_pumped,        \* how many chunks on_agent_data has processed
    ws_state,        \* each transport: "new", "open", "closed", "gone", "failed"
    ws_reason,       \* the reason the server closed it with
    ws_sent,         \* the messages sent to it, in order
    ws_attach,       \* what the channel held when it was attached
    hw_pc,           \* where the transport's endpoint coroutine is
    hw_chan,         \* the channel object that coroutine runs on
    hw_old,          \* the transport it found attached
    hw_data,         \* the client message it is forwarding
    hw_pid,          \* the pty it is writing that message to
    ws_in,           \* the transport each client message so far came in on, in order
    ws_drops,        \* how many clients have gone away or sent a bad frame
    g_agents,        \* Gateway._agents
    g_channels,      \* Gateway._channels
    calls,           \* the API calls in flight (suspended coroutines)
    last             \* the call that returned last, with its result

agentVars == <<procs, a_made, a_agent_id, a_shell, a_process, a_pty_process,
               a_queue, a_reader_task, a_produced>>
chanVars == <<c_made, c_channel_id, c_agent_id, c_agent, c_websocket,
              c_pump_task, c_history, c_history_limit, c_fed, c_pumped>>
wsVars == <<ws_state, ws_reason, ws_sent, ws_attach, hw_pc, hw_chan, hw_old,
            hw_data, hw_pid, ws_in, ws_drops>>
gwVars == <<g_agents, g_channels>>
vars == <<platform, agentVars, chanVars, wsVars, gwVars, calls, last>>

\* a suspended API call: the coroutine, where it is, and its locals
Call(op, pc, agent, chan, id, rel, data, pid) ==
    [op |-> op, pc |-> pc, agent |-> agent, chan |-> chan, id |-> id,
     rel |-> rel, data |-> data, pid |-> pid]

\* a returned call: ret is "None", "True", "False" or the error raised
Returned(op, id, ret) == [op |-> op, id |-> id, ret |-> ret]

NoCall == Returned("none", "", "None")

\* ------------------------------------------------------------ OS processes
\* state: "running"; "dying" (the process is gone, the event loop has not
\* reaped it: returncode is still None, what is written to it is lost);
\* "exited".
\* sig: the last signal the agent sent it.
NewProc(o, backend) ==
    [owner |-> o, backend |-> backend, state |-> "running", sig |-> "none",
     stdin |-> <<>>, nout |-> 0]

Pids == DOMAIN procs
Spawned(o) == {p \in Pids : procs[p].owner = o}

\* process.returncode is None
ReturncodeIsNone(p) == procs[p].state # "exited"
\* PtyProcess.isalive()
IsAlive(p) == procs[p].state = "running"

\* the process ends, by itself or by a signal
ProcessDies(p) ==
    /\ p \in Pids
    /\ procs[p].state = "running"
    /\ procs' = [procs EXCEPT ![p].state = "dying"]
    /\ UNCHANGED <<a_made, a_agent_id, a_shell, a_process, a_pty_process,
                   a_queue, a_reader_task, a_produced>>
    /\ UNCHANGED <<platform, chanVars, wsVars, gwVars, calls, last>>

\* the event loop's child watcher sets returncode
ProcessReaped(p) ==
    /\ p \in Pids
    /\ procs[p].state = "dying"
    /\ procs' = [procs EXCEPT ![p].state = "exited"]
    /\ UNCHANGED <<a_made, a_agent_id, a_shell, a_process, a_pty_process,
                   a_queue, a_reader_task, a_produced>>
    /\ UNCHANGED <<platform, chanVars, wsVars, gwVars, calls, last>>


\* ---------------------------------------------------------- TerminalAgent
\* start(): line 28
StartNoop(o) == a_process[o] # None \/ a_pty_process[o] # None
\* start(): line 33, os.name == "nt" and "codex" in shell_name and PtyProcess is None
PtyRequiredMissingFor(sh) == platform = "nt_nopty" /\ sh = "codex"
PtyRequiredMissing(o) == PtyRequiredMissingFor(a_shell[o])
\* start(): line 40, os.name == "nt" and PtyProcess is not None
UsesPty == platform = "nt_pty"
\* whether spawning the shell finds an executable (no FileNotFoundError)
FoundShell(sh) == sh # "nosuch"
Found(o) == FoundShell(a_shell[o])

\* where start() is when it first suspends or ends: "start_spawn" is the await
\* of create_subprocess_exec, "return" a normal return, else the error raised
StartNext(o) ==
    IF StartNoop(o) THEN "return"
    ELSE IF PtyRequiredMissing(o) THEN "ProcessSpawnFailed"
    ELSE IF UsesPty THEN (IF Found(o) THEN "return" ELSE "ProcessSpawnFailed")
    ELSE "start_spawn"

\* start() from its first line to there: the pty backend spawns synchronously
start(o) ==
    IF ~StartNoop(o) /\ ~PtyRequiredMissing(o) /\ UsesPty /\ Found(o)
    THEN /\ Len(procs) < MaxProcs
         /\ procs' = Append(procs, NewProc(o, "pty"))
         /\ a_pty_process' = [a_pty_process EXCEPT ![o] = Len(procs) + 1]
         /\ a_reader_task' = [a_reader_task EXCEPT ![o] = "running"]
         /\ UNCHANGED <<a_made, a_agent_id, a_shell, a_process, a_queue, a_produced>>
    ELSE UNCHANGED agentVars

\* start() resumed from create_subprocess_exec
StartSpawnNext(o) == IF Found(o) THEN "return" ELSE "ProcessSpawnFailed"

start_spawn(o) ==
    IF Found(o)
    THEN /\ Len(procs) < MaxProcs
         /\ procs' = Append(procs, NewProc(o, "pipe"))
         /\ a_process' = [a_process EXCEPT ![o] = Len(procs) + 1]
         /\ a_reader_task' = [a_reader_task EXCEPT ![o] = "running"]
         /\ UNCHANGED <<a_made, a_agent_id, a_shell, a_pty_process, a_queue, a_produced>>
    ELSE UNCHANGED agentVars

\* stop(), lines 77-85: what it does with self.process
StopProcessNext(o) ==
    IF a_process[o] # None /\ ReturncodeIsNone(a_process[o]) THEN "stop_wait"
    ELSE "return"

StopProcessProcs(o, ps) ==
    IF a_process[o] # None /\ ReturncodeIsNone(a_process[o])
    THEN [ps EXCEPT ![a_process[o]].sig = "term"]
    ELSE ps

\* where stop() is when it first suspends or ends
StopNext(o) ==
    IF a_pty_process[o] # None THEN "stop_pty_terminate" ELSE StopProcessNext(o)

\* stop() from its first line to there
stop(o) ==
    /\ a_reader_task' = [a_reader_task EXCEPT ![o] = "None"]
    /\ IF a_pty_process[o] # None
       THEN /\ procs' = [procs EXCEPT ![a_pty_process[o]].sig = "term"]
            /\ UNCHANGED a_process
       ELSE /\ procs' = StopProcessProcs(o, procs)
            /\ a_process' = IF StopProcessNext(o) = "return"
                            THEN [a_process EXCEPT ![o] = None]
                            ELSE a_process
    /\ UNCHANGED <<a_made, a_agent_id, a_shell, a_pty_process, a_queue, a_produced>>

\* stop() resumed from to_thread(pty_process.terminate): calls close
stop_pty_terminate(o) == UNCHANGED agentVars

\* stop() without its line 75: the pty handle is kept once the pty is closed
stop_pty_close_keeps_handle(o, p) ==
    /\ procs' = StopProcessProcs(o, [procs EXCEPT ![p].state = "exited"])
    /\ a_process' = IF StopProcessNext(o) = "return"
                    THEN [a_process EXCEPT ![o] = None]
                    ELSE a_process
    /\ UNCHANGED <<a_made, a_agent_id, a_shell, a_pty_process, a_queue,
                   a_reader_task, a_produced>>

\* stop() resumed from to_thread(pty_process.close): the pty and its process
\* are gone, the handle is cleared, then lines 77-85
stop_pty_close(o, p) ==
    /\ procs' = StopProcessProcs(o, [procs EXCEPT ![p].state = "exited"])
    /\ a_pty_process' = [a_pty_process EXCEPT ![o] = None]
    /\ a_process' = IF StopProcessNext(o) = "return"
                    THEN [a_process EXCEPT ![o] = None]
                    ELSE a_process
    /\ UNCHANGED <<a_made, a_agent_id, a_shell, a_queue, a_reader_task, a_produced>>

\* stop() resumed from wait_for(process.wait(), timeout=2): the process has
\* exited, or the 2 seconds are over and it is killed
StopWaitNext(p) == IF ReturncodeIsNone(p) THEN "stop_kill_wait" ELSE "return"

stop_wait(o, p) ==
    /\ IF ReturncodeIsNone(p)
       THEN /\ procs' = [procs EXCEPT ![p].sig = "kill"]
            /\ UNCHANGED a_process
       ELSE /\ a_process' = [a_process EXCEPT ![o] = None]
            /\ UNCHANGED procs
    /\ UNCHANGED <<a_made, a_agent_id, a_shell, a_pty_process, a_queue,
                   a_reader_task, a_produced>>

\* stop() resumed from process.wait() after the kill
stop_kill_wait(o, p) ==
    /\ ~ReturncodeIsNone(p)
    /\ a_process' = [a_process EXCEPT ![o] = None]
    /\ UNCHANGED <<procs, a_made, a_agent_id, a_shell, a_pty_process, a_queue,
                   a_reader_task, a_produced>>

\* send_input() reaches stdin.write (line 103) and the process is there to
\* take the bytes
StdinWriteReaches(o) ==
    /\ a_pty_process[o] = None
    /\ a_process[o] # None
    /\ procs[a_process[o]].state = "running"

\* where send_input() is when it first suspends or ends. On the pipe backend
\* drain() (line 104) returns without suspending unless it has to wait:
\* `waits` says that the written bytes filled the pipe, and a write to a
\* process that is gone fails inside the pipe transport, which closes itself
\* and raises nothing, so that drain() yields to the event loop once.
SendInputNext(o, waits) ==
    IF a_pty_process[o] # None
    THEN (IF IsAlive(a_pty_process[o]) THEN "send_pty_write" ELSE "ProcessExited")
    ELSE IF a_process[o] = None THEN "return"
    ELSE IF ~ReturncodeIsNone(a_process[o]) THEN "ProcessExited"
    ELSE IF procs[a_process[o]].state = "running" /\ ~waits THEN "return"
    ELSE "send_drain"

\* send_input() from its first line to there: the pipe backend's stdin.write
send_input(o, data) ==
    /\ IF StdinWriteReaches(o)
       THEN /\ Len(procs[a_process[o]].stdin) < MaxMsgs
            /\ procs' = [procs EXCEPT ![a_process[o]].stdin = Append(@, data)]
       ELSE UNCHANGED procs
    /\ UNCHANGED <<a_made, a_agent_id, a_shell, a_process, a_pty_process,
                   a_queue, a_reader_task, a_produced>>

\* what send_input() does when drain() resumes (lines 104-106): it returns,
\* or, once a process of the agent is gone and the closing of the pipe has
\* reached the stream, drain() raises and send_input raises ConnectionLost
SendDrainNexts(o) ==
    IF o # None /\ \E p \in Spawned(o) : procs[p].backend = "pipe" /\ procs[p].state # "running"
    THEN {"return", "ConnectionLost"}
    ELSE {"return"}

\* send_input() resumed from to_thread(pty_process.write, text)
SendPtyWriteNext(p) == IF IsAlive(p) THEN "return" ELSE "ConnectionLost"

\* send_input() decoding with the ASCII codec in its line 92: every byte of a
\* multi-byte character is dropped
send_pty_write_ascii(p, data) ==
    LET IsAscii(b) == b \notin {BadByte, ByteC3, ByteA9} IN
    /\ IF IsAlive(p)
       THEN /\ Len(procs[p].stdin) < MaxMsgs
            /\ procs' = [procs EXCEPT ![p].stdin = Append(@, SelectSeq(data, IsAscii))]
       ELSE UNCHANGED procs
    /\ UNCHANGED <<a_made, a_agent_id, a_shell, a_process, a_pty_process,
                   a_queue, a_reader_task, a_produced>>

send_pty_write(p, data) ==
    /\ IF IsAlive(p)
       THEN /\ Len(procs[p].stdin) < MaxMsgs
            /\ procs' = [procs EXCEPT ![p].stdin = Append(@, Decode(data))]
       ELSE UNCHANGED procs
    /\ UNCHANGED <<a_made, a_agent_id, a_shell, a_process, a_pty_process,
                   a_queue, a_reader_task, a_produced>>

\* the process the reader task reads from, None when it has none
ReaderProc(o) ==
    IF a_pty_process[o] # None THEN a_pty_process[o] ELSE a_process[o]

\* _reader(), lines 129 and 141: one read that returns output, and the put of
\* it. What the process wrote stays readable once the process is gone.
_reader_put(o) ==
    LET p == ReaderProc(o) IN
    /\ o <= a_made
    /\ a_reader_task[o] = "running"
    /\ p # None
    /\ procs[p].nout < MaxOut
    /\ LET chunk == IF a_pty_process[o] # None
                    THEN EncodeIgnore(OutText(procs[p].nout + 1))
                    ELSE OutChunk(procs[p].nout + 1) IN
       /\ a_queue' = [a_queue EXCEPT ![o] = Append(@, chunk)]
       /\ a_produced' = [a_produced EXCEPT ![o] = Append(@, chunk)]
    /\ procs' = [procs EXCEPT ![p].nout = @ + 1]
    /\ UNCHANGED <<a_made, a_agent_id, a_shell, a_process, a_pty_process, a_reader_task>>
    /\ UNCHANGED <<platform, chanVars, wsVars, gwVars, calls, last>>

\* _reader(), lines 132-134 and 142-144: the read meets the end of the stream
\* (or, on a pty, fails), which a process brings about by ending or by closing
\* its output; the sentinel is put and the task ends. Lines 138-139:
\* without a process the task ends at once.
_reader_eof(o) ==
    LET p == ReaderProc(o) IN
    /\ o <= a_made
    /\ a_reader_task[o] = "running"
    /\ a_reader_task' = [a_reader_task EXCEPT ![o] = "finished"]
    /\ a_queue' = [a_queue EXCEPT ![o] = IF p = None THEN @ ELSE Append(@, AgentExited)]
    /\ a_produced' = [a_produced EXCEPT ![o] = IF p = None THEN @ ELSE Append(@, AgentExited)]
    /\ UNCHANGED <<procs, a_made, a_agent_id, a_shell, a_process, a_pty_process>>
    /\ UNCHANGED <<platform, chanVars, wsVars, gwVars, calls, last>>

\* what a caller gets from a coroutine that ended at `next`
Ret(next) == IF next = "return" THEN "None" ELSE next

\* -------------------------------------------- calls on an Agent, one by one
\* The Gateway starts an agent once and stops it once, never both at a time:
\* lifecycle calls on one agent do not overlap.
LifecycleBusy(o) == \E k \in calls : k.agent = o /\ k.op \in {"start", "stop"}

AgentStart(o) ==
    /\ o <= a_made
    /\ ~LifecycleBusy(o)
    /\ Cardinality(calls) < MaxCalls
    /\ start(o)
    /\ IF StartNext(o) = "start_spawn"
       THEN /\ calls' = calls \cup {Call("start", "start_spawn", o, None, a_agent_id[o], <<>>, <<>>, None)}
            /\ UNCHANGED last
       ELSE /\ last' = Returned("start", a_agent_id[o], Ret(StartNext(o)))
            /\ UNCHANGED calls
    /\ UNCHANGED <<platform, chanVars, wsVars, gwVars>>

AgentStop(o) ==
    /\ o <= a_made
    /\ ~LifecycleBusy(o)
    /\ Cardinality(calls) < MaxCalls
    /\ stop(o)
    /\ IF StopNext(o) = "return"
       THEN /\ last' = Returned("stop", a_agent_id[o], "None")
            /\ UNCHANGED calls
       ELSE /\ calls' = calls \cup {Call("stop", StopNext(o), o, None, a_agent_id[o], <<>>, <<>>,
                                         IF a_pty_process[o] # None THEN a_pty_process[o]
                                         ELSE a_process[o])}
            /\ UNCHANGED last
    /\ UNCHANGED <<platform, chanVars, wsVars, gwVars>>

AgentSendInput(o, data) ==
    /\ o <= a_made
    /\ Cardinality(calls) < MaxCalls
    /\ (StdinWriteReaches(o) \/ SendInputNext(o, TRUE) = "send_pty_write")
          => \A p \in Spawned(o) : Len(procs[p].stdin) < MaxIn
    /\ send_input(o, data)
    /\ \E waits \in BOOLEAN :
          LET next == SendInputNext(o, waits) IN
          IF next \in {"send_drain", "send_pty_write"}
          THEN /\ calls' = calls \cup {Call("send_input", next, o, None, a_agent_id[o], <<>>,
                                            data, a_pty_process[o])}
               /\ UNCHANGED last
          ELSE /\ last' = Returned("send_input", a_agent_id[o], Ret(next))
               /\ UNCHANGED calls
    /\ UNCHANGED <<platform, chanVars, wsVars, gwVars>>

\* read_output(): the queue's get returns the oldest chunk
AgentReadOutput(o) ==
    /\ o <= a_made
    /\ a_queue[o] # <<>>
    /\ a_queue' = [a_queue EXCEPT ![o] = Tail(@)]
    /\ last' = Returned("read_output", a_agent_id[o], "None")
    /\ UNCHANGED <<procs, a_made, a_agent_id, a_shell, a_process, a_pty_process,
                   a_reader_task, a_produced>>
    /\ UNCHANGED <<platform, chanVars, wsVars, gwVars, calls>>

\* ------------------------------------------------- suspended calls resumed
\* `last` records what the direct callers of an Agent's methods get; what the
\* Gateway's callers get is given by the *_result operators
ReturnedTo(k, ret) ==
    IF k.op \in {"start", "stop", "send_input"} THEN Returned(k.op, k.id, ret) ELSE last

\* create_agent() with its lines 29 and 30 exchanged: the agent is registered
\* whether or not its start() succeeds
ResumeStartSpawn_registered_first(k) ==
    /\ k \in calls
    /\ k.pc = "start_spawn"
    /\ start_spawn(k.agent)
    /\ calls' = calls \ {k}
    /\ last' = ReturnedTo(k, Ret(StartSpawnNext(k.agent)))
    /\ g_agents' = IF k.op = "create_agent"
                   THEN [g_agents EXCEPT ![k.id] = k.agent]
                   ELSE g_agents
    /\ UNCHANGED <<platform, chanVars, wsVars, g_channels>>

\* the caller of a start() that ended: create_agent registers the agent
\* (gateway.py line 30), a direct caller does nothing more
ResumeStartSpawn(k) ==
    /\ k \in calls
    /\ k.pc = "start_spawn"
    /\ start_spawn(k.agent)
    /\ calls' = calls \ {k}
    /\ last' = ReturnedTo(k, Ret(StartSpawnNext(k.agent)))
    /\ g_agents' = IF k.op = "create_agent" /\ StartSpawnNext(k.agent) = "return"
                   THEN [g_agents EXCEPT ![k.id] = k.agent]
                   ELSE g_agents
    /\ UNCHANGED <<platform, chanVars, wsVars, g_channels>>

ResumeStopPtyTerminate(k) ==
    /\ k \in calls
    /\ k.pc = "stop_pty_terminate"
    /\ stop_pty_terminate(k.agent)
    /\ calls' = (calls \ {k}) \cup {[k EXCEPT !.pc = "stop_pty_close"]}
    /\ UNCHANGED <<platform, chanVars, wsVars, gwVars, last>>

\* stop() has ended: its caller is remove_agent (gateway.py line 65, return
\* True) or a direct caller
StopReturned(k) == ReturnedTo(k, "None")

ResumeStopPtyClose(k) ==
    /\ k \in calls
    /\ k.pc = "stop_pty_close"
    /\ stop_pty_close(k.agent, k.pid)
    /\ IF StopProcessNext(k.agent) = "return"
       THEN /\ calls' = calls \ {k}
            /\ last' = StopReturned(k)
       ELSE /\ calls' = (calls \ {k}) \cup
                        {[k EXCEPT !.pc = "stop_wait", !.pid = a_process[k.agent]]}
            /\ UNCHANGED last
    /\ UNCHANGED <<platform, chanVars, wsVars, gwVars>>

ResumeStopWait(k) ==
    /\ k \in calls
    /\ k.pc = "stop_wait"
    /\ stop_wait(k.agent, k.pid)
    /\ IF StopWaitNext(k.pid) = "return"
       THEN /\ calls' = calls \ {k}
            /\ last' = StopReturned(k)
       ELSE /\ calls' = (calls \ {k}) \cup {[k EXCEPT !.pc = "stop_kill_wait"]}
            /\ UNCHANGED last
    /\ UNCHANGED <<platform, chanVars, wsVars, gwVars>>

ResumeStopKillWait(k) ==
    /\ k \in calls
    /\ k.pc = "stop_kill_wait"
    /\ stop_kill_wait(k.agent, k.pid)
    /\ calls' = calls \ {k}
    /\ last' = StopReturned(k)
    /\ UNCHANGED <<platform, chanVars, wsVars, gwVars>>

\* send_input() resumed from stdin.drain(): it returns or raises
ResumeSendDrain(k) ==
    /\ k \in calls
    /\ k.op = "send_input"
    /\ k.pc = "send_drain"
    /\ calls' = calls \ {k}
    /\ \E res \in SendDrainNexts(k.agent) :
          last' = Returned("send_input", k.id, Ret(res))
    /\ UNCHANGED <<platform, agentVars, chanVars, wsVars, gwVars>>

ResumeSendPtyWrite(k) ==
    /\ k \in calls
    /\ k.op = "send_input"
    /\ k.pc = "send_pty_write"
    /\ send_pty_write(k.pid, k.data)
    /\ calls' = calls \ {k}
    /\ last' = Returned("send_input", k.id, Ret(SendPtyWriteNext(k.pid)))
    /\ UNCHANGED <<platform, chanVars, wsVars, gwVars>>

\* ------------------------------------------------------- initial conditions
NoAgents ==
    /\ procs = <<>>
    /\ a_made = 0
    /\ a_agent_id = [o \in AgentObjs |-> ""]
    /\ a_shell = [o \in AgentObjs |-> ""]
    /\ a_process = [o \in AgentObjs |-> None]
    /\ a_pty_process = [o \in AgentObjs |-> None]
    /\ a_queue = [o \in AgentObjs |-> <<>>]
    /\ a_reader_task = [o \in AgentObjs |-> "None"]
    /\ a_produced = [o \in AgentObjs |-> <<>>]

NoChannels ==
    /\ c_made = 0
    /\ c_channel_id = [c \in ChanObjs |-> ""]
    /\ c_agent_id = [c \in ChanObjs |-> ""]
    /\ c_agent = [c \in ChanObjs |-> None]
    /\ c_websocket = [c \in ChanObjs |-> None]
    /\ c_pump_task = [c \in ChanObjs |-> "None"]
    /\ c_history = [c \in ChanObjs |-> <<>>]
    /\ c_history_limit = [c \in ChanObjs |-> 0]
    /\ c_fed = [c \in ChanObjs |-> <<>>]
    /\ c_pumped = [c \in ChanObjs |-> 0]

NoTransports ==
    /\ ws_state = [t \in Transports |-> "new"]
    /\ ws_reason = [t \in Transports |-> ""]
    /\ ws_sent = [t \in Transports |-> <<>>]
    /\ ws_attach = [t \in Transports |-> <<>>]
    /\ hw_pc = [t \in Transports |-> "idle"]
    /\ hw_chan = [t \in Transports |-> None]
    /\ hw_old = [t \in Transports |-> None]
    /\ hw_data = [t \in Transports |-> <<>>]
    /\ hw_pid = [t \in Transports |-> None]
    /\ ws_in = <<>>
    /\ ws_drops = 0

EmptyGateway ==
    /\ g_agents = [i \in AgentIds |-> None]
    /\ g_channels = [i \in ChanIds |-> None]

\* ------------------------------------------- one TerminalAgent and its callers
\* TerminalAgent("a1", shell): __init__, lines 19-25
InitAgent ==
    /\ platform \in Platforms
    /\ procs = <<>>
    /\ a_made = 1
    /\ a_agent_id = [o \in AgentObjs |-> IF o = 1 THEN "a1" ELSE ""]
    /\ \E sh \in Shells : a_shell = [o \in AgentObjs |-> IF o = 1 THEN sh ELSE ""]
    /\ a_process = [o \in AgentObjs |-> None]
    /\ a_pty_process = [o \in AgentObjs |-> None]
    /\ a_queue = [o \in AgentObjs |-> <<>>]
    /\ a_reader_task = [o \in AgentObjs |-> "None"]
    /\ a_produced = [o \in AgentObjs |-> <<>>]
    /\ NoChannels
    /\ NoTransports
    /\ EmptyGateway
    /\ calls = {}
    /\ last = NoCall

NextAgent ==
    \/ \E o \in AgentObjs : AgentStart(o)
    \/ \E o \in AgentObjs : AgentStop(o)
    \/ \E o \in AgentObjs, data \in InputData : AgentSendInput(o, data)
    \/ \E o \in AgentObjs : AgentReadOutput(o)
    \/ \E k \in calls : ResumeStartSpawn(k)
    \/ \E k \in calls : ResumeStopPtyTerminate(k)
    \/ \E k \in calls : ResumeStopPtyClose(k)
    \/ \E k \in calls : ResumeStopWait(k)
    \/ \E k \in calls : ResumeStopKillWait(k)
    \/ \E k \in calls : ResumeSendDrain(k)
    \/ \E k \in calls : ResumeSendPtyWrite(k)
    \/ \E o \in AgentObjs : _reader_put(o)
    \/ \E o \in AgentObjs : _reader_eof(o)
    \/ \E p \in Pids : ProcessDies(p)
    \/ \E p \in Pids : ProcessReaped(p)

SpecAgent == InitAgent /\ [][NextAgent]_vars


\* ------------------------------------------------------------- transports
\* A transport is the WebSocket of one connection: "new" until accepted, then
\* "open"; "closed" once the server closed it, "gone" once the client left,
\* "failed" once a send to a transport whose client left has failed (the
\* WebSocket then counts as disconnected on the server's side too).
\* A message sent is [kind, text]: kind tells the replayed history ("history"),
\* an output chunk ("data") and the two notices ("error", "fatal") apart.
Msg(kind, text) == [kind |-> kind, text |-> text]

\* send_text succeeds on an open transport and raises on any other
CanSend(t) == ws_state[t] = "open"

SendText(sent, t, msg) ==
    IF CanSend(t) THEN [sent EXCEPT ![t] = Append(@, msg)] ELSE sent

\* send_text to a transport whose client left raises WebSocketDisconnect (the
\* error of the connection, as the WebSocket hands it on) and leaves the
\* transport "failed"; on a closed or failed transport it raises RuntimeError
SendDisconnects(t) == ws_state[t] = "gone"

\* the transports' state after a send_text to t
SendState(st, t) == IF st[t] = "gone" THEN [st EXCEPT ![t] = "failed"] ELSE st

\* the server's side of the transport is disconnected
Disconnected(s) == s \in {"closed", "failed"}

\* close(code, reason): raises at once on a transport the server has already
\* closed and on a failed one
CloseRaises(t) == Disconnected(ws_state[t])

\* ---------------------------------------------------- WebTerminalChannel
\* on_agent_data(), lines 43-48, up to the await of send_text. The pump task
\* is its only caller in the running program: `pump` is the state that task is
\* left in ("read": back at read_output, "send": suspended in send_text,
\* "failed": ended by the error send_text raised).
OnAgentDataNext(c) ==
    IF c_websocket[c] = None THEN "read"
    ELSE IF CanSend(c_websocket[c]) THEN "send"
    ELSE "failed"

on_agent_data(c, data) ==
    LET text == Decode(data) IN
    /\ c_history' = [c_history EXCEPT ![c] = AppendHistory(@, c_history_limit[c], text)]
    /\ c_fed' = [c_fed EXCEPT ![c] = @ \o _filter_history_noise(text)]
    /\ c_pumped' = [c_pumped EXCEPT ![c] = @ + 1]
    /\ ws_sent' = IF c_websocket[c] = None THEN ws_sent
                  ELSE SendText(ws_sent, c_websocket[c], Msg("data", text))
    /\ ws_state' = IF c_websocket[c] = None THEN ws_state
                   ELSE SendState(ws_state, c_websocket[c])
    /\ UNCHANGED <<c_made, c_channel_id, c_agent_id, c_agent, c_websocket,
                   c_history_limit>>
    /\ UNCHANGED <<ws_reason, ws_attach, hw_pc, hw_chan, hw_old, hw_data,
                   hw_pid, ws_in, ws_drops>>

\* ----------------------------- on_agent_data on a channel with no transport
\* the chunks a caller may pass to on_agent_data
FeedChunks ==
    {<<"a">>, <<"b", ByteC3, ByteA9>>, <<"d", BadByte>>, NoiseCsi,
     <<"e">> \o NoiseBare \o <<"f">>}

\* WebTerminalChannel("c1", history_limit=limit): __init__, lines 13-17
InitHist ==
    /\ platform = "posix"
    /\ NoAgents
    /\ c_made = 1
    /\ c_channel_id = [c \in ChanObjs |-> IF c = 1 THEN "c1" ELSE ""]
    /\ c_agent_id = [c \in ChanObjs |-> ""]
    /\ c_agent = [c \in ChanObjs |-> None]
    /\ c_websocket = [c \in ChanObjs |-> None]
    /\ c_pump_task = [c \in ChanObjs |-> "None"]
    /\ c_history = [c \in ChanObjs |-> <<>>]
    /\ \E limit \in 0..MaxLimit :
          c_history_limit = [c \in ChanObjs |-> IF c = 1 THEN limit ELSE 0]
    /\ c_fed = [c \in ChanObjs |-> <<>>]
    /\ c_pumped = [c \in ChanObjs |-> 0]
    /\ NoTransports
    /\ EmptyGateway
    /\ calls = {}
    /\ last = NoCall

ChannelOnAgentData(c, data) ==
    /\ c <= c_made
    /\ c_pumped[c] < MaxFeed
    /\ on_agent_data(c, data)
    /\ UNCHANGED c_pump_task
    /\ UNCHANGED <<platform, agentVars, gwVars, calls, last>>

NextHist == \E c \in ChanObjs, data \in FeedChunks : ChannelOnAgentData(c, data)

SpecHist == InitHist /\ [][NextHist]_vars

\* the last n characters of s (all of s when it is shorter)
LastChars(s, n) == SubSeq(s, Len(s) - Min(n, Len(s)) + 1, Len(s))

\* C5: after any sequence of on_agent_data calls and for every history_limit
\* (0 and 1 included) the history is at most history_limit long and is the
\* most recent characters of the filtered text fed so far.
C5_HistoryWithinLimit ==
    \A c \in ChanObjs :
        /\ Len(c_history[c]) <= c_history_limit[c]
        /\ c_history[c] = LastChars(c_fed[c], c_history_limit[c])

\* ------------------------------------------- the pump task of a channel
\* _agent_to_websocket_loop(), lines 79-84: read_output returns the oldest
\* chunk of the bound agent's queue and on_agent_data gets it. (The agent is
\* bound before open() starts the task, so lines 80-82 never run.)
_agent_to_websocket_loop(c) ==
    LET o == c_agent[c] IN
    /\ c <= c_made
    /\ c_pump_task[c] = "read"
    /\ o # None
    /\ a_queue[o] # <<>>
    /\ a_queue' = [a_queue EXCEPT ![o] = Tail(@)]
    /\ on_agent_data(c, Head(a_queue[o]))
    /\ c_pump_task' = [c_pump_task EXCEPT ![c] = OnAgentDataNext(c)]
    /\ UNCHANGED <<procs, a_made, a_agent_id, a_shell, a_process, a_pty_process,
                   a_reader_task, a_produced>>
    /\ UNCHANGED <<platform, gwVars, calls, last>>

\* the pump task resumed from send_text: the loop's next turn
_agent_to_websocket_loop_sent(c) ==
    /\ c <= c_made
    /\ c_pump_task[c] = "send"
    /\ c_pump_task' = [c_pump_task EXCEPT ![c] = "read"]
    /\ UNCHANGED <<c_made, c_channel_id, c_agent_id, c_agent, c_websocket,
                   c_history, c_history_limit, c_fed, c_pumped>>
    /\ UNCHANGED <<platform, agentVars, wsVars, gwVars, calls, last>>

\* ------------------------------------- the endpoint and handle_websocket
ReplacedReason == "Replaced by new connection"
NotFoundReason == "Channel not found"

\* the client of an open transport goes away
ClientDisconnect(t) ==
    /\ ws_state[t] = "open"
    /\ ws_drops < MaxDrops
    /\ ws_drops' = ws_drops + 1
    /\ ws_state' = [ws_state EXCEPT ![t] = "gone"]
    /\ UNCHANGED <<ws_reason, ws_sent, ws_attach, hw_pc, hw_chan, hw_old, hw_data,
                   hw_pid, ws_in>>
    /\ UNCHANGED <<platform, agentVars, chanVars, gwVars, calls, last>>

\* terminal_ws(), fastapi_gateway.py lines 103-109: a connection for channel id
\* cid arrives. Connections are numbered in the order they arrive. Without a
\* channel it is closed with 4004; else handle_websocket starts and suspends
\* in accept(), which opens the transport.
terminal_ws(t, cid) ==
    LET c == g_channels[cid] IN
    /\ hw_pc[t] = "idle"
    /\ t > 1 => hw_pc[t - 1] # "idle"
    /\ hw_pc' = [hw_pc EXCEPT ![t] = IF c = None THEN "done" ELSE "accept"]
    /\ hw_chan' = [hw_chan EXCEPT ![t] = c]
    /\ ws_state' = [ws_state EXCEPT ![t] = IF c = None THEN "closed" ELSE "open"]
    /\ ws_reason' = [ws_reason EXCEPT ![t] = IF c = None THEN NotFoundReason ELSE @]
    /\ UNCHANGED <<ws_sent, ws_attach, hw_old, hw_data, hw_pid, ws_in, ws_drops>>
    /\ UNCHANGED <<platform, agentVars, chanVars, gwVars, calls, last>>

\* handle_websocket(), lines 59-61: the transport is attached and the history,
\* when there is one, is sent to it. This send is outside the try block: when it
\* raises, handle_websocket ends ("crashed") without running the finally.
AttachNext(c, t) ==
    IF c_history[c] = <<>> THEN "receive"
    ELSE IF CanSend(t) THEN "replay"
    ELSE "crashed"

\* handle_websocket() without its line 61: the transport is attached and the
\* history is not replayed
Attach_without_replay(c, t) ==
    /\ c_websocket' = [c_websocket EXCEPT ![c] = t]
    /\ ws_attach' = [ws_attach EXCEPT
                        ![t] = <<[at |-> c_pumped[c], history |-> c_history[c]]>>]
    /\ ws_sent' = ws_sent
    /\ ws_state' = ws_state

Attach(c, t) ==
    /\ c_websocket' = [c_websocket EXCEPT ![c] = t]
    /\ ws_attach' = [ws_attach EXCEPT
                        ![t] = <<[at |-> c_pumped[c], history |-> c_history[c]]>>]
    /\ ws_sent' = IF c_history[c] = <<>> THEN ws_sent
                  ELSE SendText(ws_sent, t, Msg("history", c_history[c]))
    /\ ws_state' = IF c_history[c] = <<>> THEN ws_state ELSE SendState(ws_state, t)

\* handle_websocket(), lines 53-57: is there another transport to close, and
\* does closing it suspend (it raises at once when it is closed already or
\* failed)
MustClose(c, t) == c_websocket[c] # None /\ c_websocket[c] # t
ClosingSuspends(c, t) == MustClose(c, t) /\ ~CloseRaises(c_websocket[c])

\* handle_websocket() without its lines 53-57: the transport found attached
\* is left open when the new one is attached
hw_accept_without_close(t) ==
    LET c == hw_chan[t]
        old == c_websocket[c] IN
    /\ hw_pc[t] = "accept"
    /\ hw_old' = [hw_old EXCEPT ![t] = IF MustClose(c, t) THEN old ELSE None]
    /\ Attach(c, t)
    /\ hw_pc' = [hw_pc EXCEPT ![t] = AttachNext(c, t)]
    /\ UNCHANGED ws_reason
    /\ UNCHANGED <<hw_chan, hw_data, hw_pid, ws_in, ws_drops>>
    /\ UNCHANGED <<c_made, c_channel_id, c_agent_id, c_agent, c_pump_task,
                   c_history, c_history_limit, c_fed, c_pumped>>
    /\ UNCHANGED <<platform, agentVars, gwVars, calls, last>>

\* handle_websocket() resumed from accept(): lines 53-61 up to the next await
hw_accept(t) ==
    LET c == hw_chan[t]
        old == c_websocket[c] IN
    /\ hw_pc[t] = "accept"
    /\ hw_old' = [hw_old EXCEPT ![t] = IF MustClose(c, t) THEN old ELSE None]
    /\ IF ClosingSuspends(c, t)
       THEN /\ ws_state' = [ws_state EXCEPT ![old] = "closed"]
            /\ ws_reason' = [ws_reason EXCEPT ![old] = ReplacedReason]
            /\ hw_pc' = [hw_pc EXCEPT ![t] = "close_old"]
            /\ UNCHANGED <<c_websocket, ws_attach, ws_sent>>
       ELSE /\ Attach(c, t)
            /\ hw_pc' = [hw_pc EXCEPT ![t] = AttachNext(c, t)]
            /\ UNCHANGED ws_reason
    /\ UNCHANGED <<hw_chan, hw_data, hw_pid, ws_in, ws_drops>>
    /\ UNCHANGED <<c_made, c_channel_id, c_agent_id, c_agent, c_pump_task,
                   c_history, c_history_limit, c_fed, c_pumped>>
    /\ UNCHANGED <<platform, agentVars, gwVars, calls, last>>

\* handle_websocket() resumed from closing the other transport: lines 59-61
hw_close_old(t) ==
    LET c == hw_chan[t] IN
    /\ hw_pc[t] = "close_old"
    /\ Attach(c, t)
    /\ hw_pc' = [hw_pc EXCEPT ![t] = AttachNext(c, t)]
    /\ UNCHANGED <<ws_reason, hw_chan, hw_old, hw_data, hw_pid, ws_in, ws_drops>>
    /\ UNCHANGED <<c_made, c_channel_id, c_agent_id, c_agent, c_pump_task,
                   c_history, c_history_limit, c_fed, c_pumped>>
    /\ UNCHANGED <<platform, agentVars, gwVars, calls, last>>

\* handle_websocket() resumed from sending the history: the receive loop
hw_replay(t) ==
    /\ hw_pc[t] = "replay"
    /\ hw_pc' = [hw_pc EXCEPT ![t] = "receive"]
    /\ UNCHANGED <<ws_state, ws_reason, ws_sent, ws_attach, hw_chan, hw_old,
                   hw_data, hw_pid, ws_in, ws_drops>>
    /\ UNCHANGED <<platform, agentVars, chanVars, gwVars, calls, last>>

\* handle_websocket(), lines 74-76: the finally
Finally(c, t) ==
    [c_websocket EXCEPT ![c] = IF @ = t THEN None ELSE @]

\* on_client_data(), lines 38-40, and what follows in handle_websocket when
\* send_input has raised: the notice goes to the attached transport. When that
\* send raises WebSocketDisconnect, handle_websocket's lines 67-68 take it and
\* the finally runs; when it raises another error, lines 69-73 send the fatal
\* notice to the handler's own transport and the finally runs
NoticeNext(c, t) ==
    IF c_websocket[c] = None THEN "receive"
    ELSE IF CanSend(c_websocket[c]) THEN "notify"
    ELSE IF SendDisconnects(c_websocket[c]) THEN "done"
    ELSE IF CanSend(t) THEN "fatal"
    ELSE "done"

NoticeSent(c, t, exc) ==
    IF c_websocket[c] = None THEN ws_sent
    ELSE IF CanSend(c_websocket[c])
         THEN SendText(ws_sent, c_websocket[c], Msg("error", <<exc>>))
    ELSE IF SendDisconnects(c_websocket[c]) THEN ws_sent
    ELSE SendText(ws_sent, t, Msg("fatal", <<"send_text">>))

\* the transports' state after these sends
NoticeState(c, t) ==
    IF c_websocket[c] = None THEN ws_state
    ELSE IF CanSend(c_websocket[c]) \/ SendDisconnects(c_websocket[c])
         THEN SendState(ws_state, c_websocket[c])
    ELSE SendState(ws_state, t)

\* where the handler is after on_client_data called send_input, which went to
\* `res` (a suspension inside send_input, "return", or the error it raised)
OnClientDataNext(c, t, res) ==
    IF res \in {"send_drain", "send_pty_write"} THEN res
    ELSE IF res = "return" THEN "receive"
    ELSE NoticeNext(c, t)

IsError(res) == res \notin {"send_drain", "send_pty_write", "return"}

\* handle_websocket(), lines 65-66: receive_text returns a message and
\* on_client_data (lines 35-37) passes its bytes to send_input
hw_receive_text_to(t, waits) ==
    LET c == hw_chan[t]
        o == c_agent[c]
        text == ClientText(Len(ws_in) + 1)
        res == IF o = None THEN "return" ELSE SendInputNext(o, waits) IN
    /\ hw_pc[t] = "receive"
    /\ ws_state[t] = "open"
    /\ Len(ws_in) < MaxMsgs
    /\ ws_in' = Append(ws_in, t)
    /\ UNCHANGED ws_drops
    /\ IF o = None THEN UNCHANGED agentVars ELSE send_input(o, Encode(text))
    /\ hw_pc' = [hw_pc EXCEPT ![t] = OnClientDataNext(c, t, res)]
    /\ hw_data' = [hw_data EXCEPT ![t] = IF res = "send_pty_write" THEN Encode(text) ELSE @]
    /\ hw_pid' = [hw_pid EXCEPT ![t] = IF res = "send_pty_write" THEN a_pty_process[o] ELSE @]
    /\ ws_sent' = IF IsError(res) THEN NoticeSent(c, t, res) ELSE ws_sent
    /\ ws_state' = IF IsError(res) THEN NoticeState(c, t) ELSE ws_state
    /\ c_websocket' = IF IsError(res) /\ NoticeNext(c, t) = "done"
                      THEN Finally(c, t) ELSE c_websocket
    /\ UNCHANGED <<ws_reason, ws_attach, hw_chan, hw_old>>
    /\ UNCHANGED <<c_made, c_channel_id, c_agent_id, c_agent, c_pump_task,
                   c_history, c_history_limit, c_fed, c_pumped>>
    /\ UNCHANGED <<platform, gwVars, calls, last>>

hw_receive_text(t) == \E waits \in BOOLEAN : hw_receive_text_to(t, waits)

\* the handler resumed from stdin.drain() with `res`: send_input and
\* on_client_data return and the loop receives again, or send_input raises
\* and on_client_data sends the notice
hw_send_drain_to(t, res) ==
    LET c == hw_chan[t] IN
    /\ hw_pc[t] = "send_drain"
    /\ hw_pc' = [hw_pc EXCEPT ![t] = OnClientDataNext(c, t, res)]
    /\ ws_sent' = IF IsError(res) THEN NoticeSent(c, t, res) ELSE ws_sent
    /\ ws_state' = IF IsError(res) THEN NoticeState(c, t) ELSE ws_state
    /\ c_websocket' = IF IsError(res) /\ NoticeNext(c, t) = "done"
                      THEN Finally(c, t) ELSE c_websocket
    /\ UNCHANGED <<ws_reason, ws_attach, hw_chan, hw_old, hw_data,
                   hw_pid, ws_in, ws_drops>>
    /\ UNCHANGED <<c_made, c_channel_id, c_agent_id, c_agent, c_pump_task,
                   c_history, c_history_limit, c_fed, c_pumped>>
    /\ UNCHANGED <<platform, agentVars, gwVars, calls, last>>

hw_send_drain(t) ==
    /\ hw_pc[t] = "send_drain"
    /\ \E res \in SendDrainNexts(c_agent[hw_chan[t]]) : hw_send_drain_to(t, res)

\* the handler resumed from to_thread(pty_process.write, text)
hw_send_pty_write(t) ==
    LET c == hw_chan[t]
        res == SendPtyWriteNext(hw_pid[t]) IN
    /\ hw_pc[t] = "send_pty_write"
    /\ send_pty_write(hw_pid[t], hw_data[t])
    /\ hw_pc' = [hw_pc EXCEPT ![t] = OnClientDataNext(c, t, res)]
    /\ ws_sent' = IF IsError(res) THEN NoticeSent(c, t, res) ELSE ws_sent
    /\ ws_state' = IF IsError(res) THEN NoticeState(c, t) ELSE ws_state
    /\ c_websocket' = IF IsError(res) /\ NoticeNext(c, t) = "done"
                      THEN Finally(c, t) ELSE c_websocket
    /\ UNCHANGED <<ws_reason, ws_attach, hw_chan, hw_old, hw_data,
                   hw_pid, ws_in, ws_drops>>
    /\ UNCHANGED <<c_made, c_channel_id, c_agent_id, c_agent, c_pump_task,
                   c_history, c_history_limit, c_fed, c_pumped>>
    /\ UNCHANGED <<platform, gwVars, calls, last>>

\* the handler resumed from sending the "[channel error]" notice
hw_notify(t) ==
    /\ hw_pc[t] = "notify"
    /\ hw_pc' = [hw_pc EXCEPT ![t] = "receive"]
    /\ UNCHANGED <<ws_state, ws_reason, ws_sent, ws_attach, hw_chan, hw_old,
                   hw_data, hw_pid, ws_in, ws_drops>>
    /\ UNCHANGED <<platform, agentVars, chanVars, gwVars, calls, last>>

\* handle_websocket(), lines 67-68 and 74-76: receive_text raises
\* WebSocketDisconnect on a transport that is closed, gone or failed
hw_receive_disconnect(t) ==
    LET c == hw_chan[t] IN
    /\ hw_pc[t] = "receive"
    /\ ws_state[t] \in {"closed", "gone", "failed"}
    /\ hw_pc' = [hw_pc EXCEPT ![t] = "done"]
    /\ c_websocket' = Finally(c, t)
    /\ UNCHANGED <<ws_state, ws_reason, ws_sent, ws_attach, hw_chan, hw_old,
                   hw_data, hw_pid, ws_in, ws_drops>>
    /\ UNCHANGED <<c_made, c_channel_id, c_agent_id, c_agent, c_pump_task,
                   c_history, c_history_limit, c_fed, c_pumped>>
    /\ UNCHANGED <<platform, agentVars, gwVars, calls, last>>

\* handle_websocket(), lines 69-71: receive_text raises another error (the
\* client sent a frame that is not text) and the fatal notice is sent
hw_receive_error(t) ==
    /\ hw_pc[t] = "receive"
    /\ ws_state[t] = "open"
    /\ ws_drops < MaxDrops
    /\ ws_drops' = ws_drops + 1
    /\ hw_pc' = [hw_pc EXCEPT ![t] = "fatal"]
    /\ ws_sent' = SendText(ws_sent, t, Msg("fatal", <<"receive_text">>))
    /\ UNCHANGED <<ws_state, ws_reason, ws_attach, hw_chan, hw_old, hw_data,
                   hw_pid, ws_in>>
    /\ UNCHANGED <<platform, agentVars, chanVars, gwVars, calls, last>>

\* the handler resumed from sending the fatal notice: the finally
hw_fatal(t) ==
    LET c == hw_chan[t] IN
    /\ hw_pc[t] = "fatal"
    /\ hw_pc' = [hw_pc EXCEPT ![t] = "done"]
    /\ c_websocket' = Finally(c, t)
    /\ UNCHANGED <<ws_state, ws_reason, ws_sent, ws_attach, hw_chan, hw_old,
                   hw_data, hw_pid, ws_in, ws_drops>>
    /\ UNCHANGED <<c_made, c_channel_id, c_agent_id, c_agent, c_pump_task,
                   c_history, c_history_limit, c_fed, c_pumped>>
    /\ UNCHANGED <<platform, agentVars, gwVars, calls, last>>

\* ---------------------------- one channel on a running agent, and its clients
\* the state bootstrap() (main.py lines 25-55) leaves for a configuration of
\* one agent "a1" and one channel "c1" bound to it
InitChan ==
    /\ platform \in {"posix", "nt_pty"}
    /\ procs = <<NewProc(1, IF platform = "nt_pty" THEN "pty" ELSE "pipe")>>
    /\ a_made = 1
    /\ a_agent_id = [o \in AgentObjs |-> IF o = 1 THEN "a1" ELSE ""]
    /\ a_shell = [o \in AgentObjs |-> IF o = 1 THEN "bash" ELSE ""]
    /\ a_process = [o \in AgentObjs |-> IF o = 1 /\ platform = "posix" THEN 1 ELSE None]
    /\ a_pty_process = [o \in AgentObjs |-> IF o = 1 /\ platform = "nt_pty" THEN 1 ELSE None]
    /\ a_queue = [o \in AgentObjs |-> <<>>]
    /\ a_reader_task = [o \in AgentObjs |-> IF o = 1 THEN "running" ELSE "None"]
    /\ a_produced = [o \in AgentObjs |-> <<>>]
    /\ c_made = 1
    /\ c_channel_id = [c \in ChanObjs |-> IF c = 1 THEN "c1" ELSE ""]
    /\ c_agent_id = [c \in ChanObjs |-> IF c = 1 THEN "a1" ELSE ""]
    /\ c_agent = [c \in ChanObjs |-> IF c = 1 THEN 1 ELSE None]
    /\ c_websocket = [c \in ChanObjs |-> None]
    /\ c_pump_task = [c \in ChanObjs |-> IF c = 1 THEN "read" ELSE "None"]
    /\ c_history = [c \in ChanObjs |-> <<>>]
    /\ c_history_limit = [c \in ChanObjs |-> IF c = 1 THEN MaxLimit ELSE 0]
    /\ c_fed = [c \in ChanObjs |-> <<>>]
    /\ c_pumped = [c \in ChanObjs |-> 0]
    /\ NoTransports
    /\ g_agents = [i \in AgentIds |-> IF i = "a1" THEN 1 ELSE None]
    /\ g_channels = [i \in ChanIds |-> IF i = "c1" THEN 1 ELSE None]
    /\ calls = {}
    /\ last = NoCall

\* ------------------- one channel, its clients' input and a process that ends
\* the handlers forward what the clients send while the agent's process may
\* end; nothing is written by the process here
NextInput ==
    \/ \E t \in Transports, cid \in ChanIds : terminal_ws(t, cid)
    \/ \E t \in Transports : hw_accept(t)
    \/ \E t \in Transports : hw_close_old(t)
    \/ \E t \in Transports : hw_receive_text(t)
    \/ \E t \in Transports : hw_send_drain(t)
    \/ \E t \in Transports : hw_send_pty_write(t)
    \/ \E t \in Transports : hw_notify(t)
    \/ \E t \in Transports : hw_receive_disconnect(t)
    \/ \E t \in Transports : hw_fatal(t)
    \/ \E t \in Transports : ClientDisconnect(t)
    \/ \E p \in Pids : ProcessDies(p)
    \/ \E p \in Pids : ProcessReaped(p)

SpecInput == InitChan /\ [][NextInput]_vars

\* ------------------------------------- open() and close() of one channel
\* open(), lines 19-21: the pump task is created unless the channel has one
OpenNext(pump) == IF pump = "None" THEN "read" ELSE pump

ChannelOpen(c) ==
    /\ c <= c_made
    /\ c_pump_task' = [c_pump_task EXCEPT ![c] = OpenNext(@)]
    /\ last' = Returned("open", c_channel_id[c], "None")
    /\ UNCHANGED <<c_made, c_channel_id, c_agent_id, c_agent, c_websocket,
                   c_history, c_history_limit, c_fed, c_pumped>>
    /\ UNCHANGED <<platform, agentVars, wsVars, gwVars, calls>>

\* close(), lines 23-32, up to the await of websocket.close() or to its end:
\* the pump task is cancelled and forgotten; closing a transport that is closed
\* already raises at once, which close() ignores
ChannelClose(c) ==
    LET t == c_websocket[c] IN
    /\ c <= c_made
    /\ Cardinality(calls) < MaxCalls
    /\ c_pump_task' = [c_pump_task EXCEPT ![c] = "None"]
    /\ IF t # None /\ ~CloseRaises(t)
       THEN /\ ws_state' = [ws_state EXCEPT ![t] = "closed"]
            /\ ws_reason' = [ws_reason EXCEPT ![t] = ""]
            /\ calls' = calls \cup {Call("close", "close_ws", None, c, c_channel_id[c],
                                         <<>>, <<>>, None)}
            /\ UNCHANGED <<c_websocket, last>>
       ELSE /\ c_websocket' = [c_websocket EXCEPT ![c] = None]
            /\ last' = Returned("close", c_channel_id[c], "None")
            /\ UNCHANGED <<ws_state, ws_reason, calls>>
    /\ UNCHANGED <<c_made, c_channel_id, c_agent_id, c_agent, c_history,
                   c_history_limit, c_fed, c_pumped>>
    /\ UNCHANGED <<ws_sent, ws_attach, hw_pc, hw_chan, hw_old, hw_data, hw_pid,
                   ws_in, ws_drops>>
    /\ UNCHANGED <<platform, agentVars, gwVars>>

\* close() resumed from websocket.close(), line 32
ResumeChannelClose(k) ==
    /\ k \in calls
    /\ k.op = "close"
    /\ k.pc = "close_ws"
    /\ c_websocket' = [c_websocket EXCEPT ![k.chan] = None]
    /\ calls' = calls \ {k}
    /\ last' = Returned("close", k.id, "None")
    /\ UNCHANGED <<c_made, c_channel_id, c_agent_id, c_agent, c_pump_task,
                   c_history, c_history_limit, c_fed, c_pumped>>
    /\ UNCHANGED <<platform, agentVars, wsVars, gwVars>>

\* the transports that connect while open() and close() are exercised
PumpTransports == 1..MaxPumpTransports

\* one channel on a running agent: open() and close() are called on it while
\* clients connect and leave and the process writes
NextPump ==
    \/ \E c \in ChanObjs : ChannelOpen(c)
    \/ \E c \in ChanObjs : ChannelClose(c)
    \/ \E k \in calls : ResumeChannelClose(k)
    \/ \E t \in PumpTransports, cid \in ChanIds : terminal_ws(t, cid)
    \/ \E t \in PumpTransports : hw_accept(t)
    \/ \E t \in PumpTransports : hw_close_old(t)
    \/ \E t \in PumpTransports : hw_replay(t)
    \/ \E t \in PumpTransports : hw_receive_disconnect(t)
    \/ \E t \in PumpTransports : ClientDisconnect(t)
    \/ \E c \in ChanObjs : _agent_to_websocket_loop(c)
    \/ \E c \in ChanObjs : _agent_to_websocket_loop_sent(c)
    \/ \E o \in AgentObjs : _reader_put(o)

SpecPump == InitChan /\ [][NextPump]_vars

\* the transport t is the one attached to its channel, and open
Serving(t) ==
    /\ hw_chan[t] # None
    /\ c_websocket[hw_chan[t]] = t
    /\ ws_state[t] = "open"

\* the texts of the output chunks sent to t
RECURSIVE DataTexts(_)
DataTexts(sent) ==
    IF sent = <<>> THEN <<>>
    ELSE (IF Head(sent).kind = "data" THEN <<Head(sent).text>> ELSE <<>>)
         \o DataTexts(Tail(sent))

\* the chunks the agent of t's channel has produced
ProducedFor(t) == a_produced[c_agent[hw_chan[t]]]

\* ------------------------------------------------------------- the Gateway
AgentTypes == {"terminal", "nosuchtype"}
ChannelTypes == {"web_terminal", "nosuchtype"}
\* the shells the callers of create_agent ask for
GatewayShells == {"bash", "nosuch"}
\* the transports that connect while the registry is exercised
RegTransports == 1..MaxRegTransports

\* start() of an agent just constructed with shell sh: where it first suspends
\* or ends (terminal_agent.py lines 27-59)
StartNextFor(sh) ==
    IF PtyRequiredMissingFor(sh) THEN "ProcessSpawnFailed"
    ELSE IF UsesPty THEN (IF FoundShell(sh) THEN "return" ELSE "ProcessSpawnFailed")
    ELSE "start_spawn"

\* create_agent() without its lines 23-24: an id in use is not refused
create_agent_result_unchecked(id, type, sh) ==
    IF type # "terminal" THEN "UnknownType"
    ELSE StartNextFor(sh)

\* create_agent(), gateway.py lines 22-31: the error it raises, or where
\* start() first suspends ("start_spawn") or that it returns the agent
\* ("return") without suspending
create_agent_result(id, type, sh) ==
    IF g_agents[id] # None THEN "AlreadyExists"
    ELSE IF type # "terminal" THEN "UnknownType"
    ELSE StartNextFor(sh)

\* create_agent(), gateway.py lines 22-31, up to the await of start()'s
\* create_subprocess_exec or to its end
create_agent(id, type, sh) ==
    LET o == a_made + 1
        next == create_agent_result(id, type, sh)
        pty == next = "return" IN
    /\ Cardinality(calls) < MaxCalls
    /\ IF next \in {"AlreadyExists", "UnknownType"}
       THEN UNCHANGED <<agentVars, g_agents, calls>>
       ELSE /\ a_made < MaxAgentObjs
            /\ pty => Len(procs) < MaxProcs
            /\ a_made' = o
            /\ a_agent_id' = [a_agent_id EXCEPT ![o] = id]
            /\ a_shell' = [a_shell EXCEPT ![o] = sh]
            /\ procs' = IF pty THEN Append(procs, NewProc(o, "pty")) ELSE procs
            /\ a_pty_process' = IF pty THEN [a_pty_process EXCEPT ![o] = Len(procs) + 1]
                                ELSE a_pty_process
            /\ a_reader_task' = IF pty THEN [a_reader_task EXCEPT ![o] = "running"]
                                ELSE a_reader_task
            /\ UNCHANGED <<a_process, a_queue, a_produced>>
            /\ g_agents' = IF pty THEN [g_agents EXCEPT ![id] = o] ELSE g_agents
            /\ calls' = IF next = "start_spawn"
                        THEN calls \cup {Call("create_agent", "start_spawn", o, None,
                                              id, <<>>, <<>>, None)}
                        ELSE calls
    /\ UNCHANGED <<platform, chanVars, wsVars, g_channels, last>>

\* create_channel() without its lines 39-41: the agent id is not looked up
\* before the channel is constructed
create_channel_result_agent_unchecked(cid, type, aid) ==
    IF g_channels[cid] # None THEN "AlreadyExists"
    ELSE IF type # "web_terminal" THEN "UnknownType"
    ELSE "return"

\* create_channel(), gateway.py lines 33-46: open() creates the pump task and
\* does not suspend, so the whole call is one step
create_channel_result(cid, type, aid) ==
    IF g_channels[cid] # None THEN "AlreadyExists"
    ELSE IF type # "web_terminal" THEN "UnknownType"
    ELSE IF g_agents[aid] = None THEN "NotFound"
    ELSE "return"

create_channel(cid, type, aid) ==
    LET c == c_made + 1 IN
    /\ IF create_channel_result(cid, type, aid) # "return"
       THEN UNCHANGED <<chanVars, g_channels>>
       ELSE /\ c_made < MaxChanObjs
            /\ c_made' = c
            /\ c_channel_id' = [c_channel_id EXCEPT ![c] = cid]
            /\ c_agent_id' = [c_agent_id EXCEPT ![c] = aid]
            /\ c_agent' = [c_agent EXCEPT ![c] = g_agents[aid]]
            /\ c_pump_task' = [c_pump_task EXCEPT ![c] = "read"]
            /\ c_history_limit' = [c_history_limit EXCEPT ![c] = MaxLimit]
            /\ UNCHANGED <<c_websocket, c_history, c_fed, c_pumped>>
            /\ g_channels' = [g_channels EXCEPT ![cid] = c]
    /\ UNCHANGED <<platform, agentVars, wsVars, g_agents, calls, last>>

\* what remove_channel and close() change: the channel map, the pump tasks, the
\* attached transports and the transports' state; chan is the channel whose
\* close() is suspended in websocket.close(), rel the ids still to remove
Registry ==
    [chs |-> g_channels, pump |-> c_pump_task, wsk |-> c_websocket,
     wst |-> ws_state, wsr |-> ws_reason, chan |-> None, rel |-> <<>>]

\* remove_channel(), gateway.py lines 48-53, with close(), lines 23-32, up to
\* the await of websocket.close() or to its end
RemoveChannelStep(st, cid) ==
    LET c == st.chs[cid] IN
    IF c = None THEN [st EXCEPT !.chan = None]
    ELSE LET t == st.wsk[c]
             popped == [st EXCEPT !.chs[cid] = None, !.pump[c] = "None"] IN
         IF t = None THEN [popped EXCEPT !.chan = None]
         ELSE IF Disconnected(st.wst[t]) THEN [popped EXCEPT !.wsk[c] = None, !.chan = None]
         ELSE [popped EXCEPT !.wst[t] = "closed", !.wsr[t] = "", !.chan = c]

\* remove_agent(), gateway.py line 60: the ids of the channels bound to aid, in
\* the order of the _channels dict (the order they were registered in, which
\* is the order the channel objects were constructed in)
RECURSIVE RelatedFrom(_, _)
RelatedFrom(c, aid) ==
    IF c > c_made THEN <<>>
    ELSE (IF g_channels[c_channel_id[c]] = c /\ c_agent_id[c] = aid
          THEN <<c_channel_id[c]>> ELSE <<>>) \o RelatedFrom(c + 1, aid)

\* remove_agent() without the cascade of its lines 60-62
related_channels_none(aid) ==
    <<>>

related_channels(aid) ==
    RelatedFrom(1, aid)

\* remove_agent(), gateway.py lines 61-62: the loop over the related ids, up to
\* the first close() that suspends or to the end of the list
RECURSIVE RemoveRelated(_, _)
RemoveRelated(st, rel) ==
    IF rel = <<>> THEN [st EXCEPT !.chan = None, !.rel = <<>>]
    ELSE LET st1 == RemoveChannelStep(st, Head(rel)) IN
         IF st1.chan # None THEN [st1 EXCEPT !.rel = Tail(rel)]
         ELSE RemoveRelated(st1, Tail(rel))

SetRegistry(st) ==
    /\ g_channels' = st.chs
    /\ c_pump_task' = st.pump
    /\ c_websocket' = st.wsk
    /\ ws_state' = st.wst
    /\ ws_reason' = st.wsr

\* remove_channel(): the call (done is empty) or its resumption (done holds the
\* suspended call)
remove_channel_from(done, cid, st) ==
    /\ SetRegistry(st)
    /\ calls' = IF st.chan # None
                THEN (calls \ done) \cup
                     {Call("remove_channel", "close_ws", None, st.chan, cid, <<>>, <<>>, None)}
                ELSE calls \ done
    /\ UNCHANGED <<platform, agentVars, g_agents, last>>
    /\ UNCHANGED <<c_made, c_channel_id, c_agent_id, c_agent, c_history,
                   c_history_limit, c_fed, c_pumped>>
    /\ UNCHANGED <<ws_sent, ws_attach, hw_pc, hw_chan, hw_old, hw_data, hw_pid,
                   ws_in, ws_drops>>

\* remove_channel(), gateway.py lines 48-53: what it returns
remove_channel_result(cid) == IF g_channels[cid] = None THEN "False" ELSE "True"

remove_channel(cid) ==
    /\ Cardinality(calls) < MaxCalls
    /\ remove_channel_from({}, cid, RemoveChannelStep(Registry, cid))

\* remove_agent() from the loop of lines 61-62 on: the rest of the loop, then
\* stop() (line 64) up to its first await or to its end (line 65)
remove_agent_from(done, o, aid, st) ==
    /\ SetRegistry(st)
    /\ IF st.chan # None
       THEN /\ calls' = (calls \ done) \cup
                        {Call("remove_agent", "close_ws", o, st.chan, aid, st.rel, <<>>, None)}
            /\ UNCHANGED agentVars
       ELSE /\ stop(o)
            /\ calls' = IF StopNext(o) = "return"
                        THEN calls \ done
                        ELSE (calls \ done) \cup
                             {Call("remove_agent", StopNext(o), o, None, aid, <<>>, <<>>,
                                   IF a_pty_process[o] # None THEN a_pty_process[o]
                                   ELSE a_process[o])}
    /\ UNCHANGED <<c_made, c_channel_id, c_agent_id, c_agent, c_history,
                   c_history_limit, c_fed, c_pumped>>
    /\ UNCHANGED <<ws_sent, ws_attach, hw_pc, hw_chan, hw_old, hw_data, hw_pid,
                   ws_in, ws_drops>>
    /\ UNCHANGED <<platform, last>>

\* remove_agent(), gateway.py lines 55-65: what it returns
remove_agent_result(aid) == IF g_agents[aid] = None THEN "False" ELSE "True"

\* remove_agent(), gateway.py lines 55-65
remove_agent(aid) ==
    /\ Cardinality(calls) < MaxCalls
    /\ IF remove_agent_result(aid) = "False"
       THEN UNCHANGED vars
       ELSE /\ g_agents' = [g_agents EXCEPT ![aid] = None]
            /\ remove_agent_from({}, g_agents[aid], aid,
                                 RemoveRelated(Registry, related_channels(aid)))

\* close() resumed from websocket.close(), line 32: the reference is cleared;
\* remove_channel returns True, and remove_agent goes on with its loop
ResumeCloseWs(k) ==
    LET st == [Registry EXCEPT !.wsk[k.chan] = None] IN
    /\ k \in calls
    /\ k.op \in {"remove_channel", "remove_agent"}
    /\ k.pc = "close_ws"
    /\ IF k.op = "remove_channel"
       THEN remove_channel_from({k}, k.id, st)
       ELSE /\ remove_agent_from({k}, k.agent, k.id, RemoveRelated(st, k.rel))
            /\ UNCHANGED g_agents

\* a process the agent has signalled ends
ProcessSignalled(p) ==
    /\ p \in Pids
    /\ procs[p].sig # "none"
    /\ ProcessDies(p)

\* ------------------- one channel on a running agent, its clients, its close
\* the channel bootstrap() made serves connections while the agent writes
\* output; remove_channel, the program's one caller of close(), may close it
NextChan ==
    \/ \E t \in Transports, cid \in ChanIds : terminal_ws(t, cid)
    \/ \E t \in Transports : hw_accept(t)
    \/ \E t \in Transports : hw_close_old(t)
    \/ \E t \in Transports : hw_replay(t)
    \/ \E t \in Transports : Len(ws_in) < MaxIn /\ hw_receive_text(t)
    \/ \E t \in Transports : hw_send_drain(t)
    \/ \E t \in Transports : hw_send_pty_write(t)
    \/ \E t \in Transports : hw_receive_disconnect(t)
    \/ \E t \in Transports : hw_receive_error(t)
    \/ \E t \in Transports : hw_fatal(t)
    \/ \E t \in Transports : ClientDisconnect(t)
    \/ \E c \in ChanObjs : _agent_to_websocket_loop(c)
    \/ \E c \in ChanObjs : _agent_to_websocket_loop_sent(c)
    \/ \E o \in AgentObjs : _reader_put(o)
    \/ \E cid \in ChanIds : remove_channel(cid)
    \/ \E k \in calls : ResumeCloseWs(k)

SpecChan == InitChan /\ [][NextChan]_vars

\* the event loop runs every task that is ready: the pump, the reader and the
\* endpoint coroutines are resumed once what they wait for has happened
FairChan ==
    /\ \A c \in ChanObjs : WF_vars(_agent_to_websocket_loop(c))
    /\ \A c \in ChanObjs : WF_vars(_agent_to_websocket_loop_sent(c))
    /\ \A t \in Transports : WF_vars(hw_accept(t))
    /\ \A t \in Transports : WF_vars(hw_close_old(t))
    /\ \A t \in Transports : WF_vars(hw_replay(t))
    /\ \A t \in Transports : WF_vars(hw_send_drain(t))
    /\ \A t \in Transports : WF_vars(hw_send_pty_write(t))
    /\ \A t \in Transports : WF_vars(hw_receive_disconnect(t))
    /\ \A t \in Transports : WF_vars(hw_fatal(t))
    /\ WF_vars(\E k \in calls : ResumeCloseWs(k))

FairSpecChan == SpecChan /\ FairChan

\* ------------------------------ one channel, its clients, and its removal
\* the channel bootstrap() made is removed while clients connect to it and
\* send input
NextRemove ==
    \/ \E cid \in ChanIds : remove_channel(cid)
    \/ \E k \in calls : ResumeCloseWs(k)
    \/ \E t \in PumpTransports, cid \in ChanIds : terminal_ws(t, cid)
    \/ \E t \in PumpTransports : hw_accept(t)
    \/ \E t \in PumpTransports : hw_close_old(t)
    \/ \E t \in PumpTransports : hw_receive_text(t)
    \/ \E t \in PumpTransports : hw_send_drain(t)
    \/ \E t \in PumpTransports : hw_send_pty_write(t)
    \/ \E t \in PumpTransports : hw_receive_disconnect(t)
    \/ \E t \in PumpTransports : ClientDisconnect(t)

SpecRemove == InitChan /\ [][NextRemove]_vars

\* Gateway(), gateway.py lines 10-15, on either host
InitReg ==
    /\ platform \in {"posix", "nt_pty"}
    /\ NoAgents
    /\ NoChannels
    /\ NoTransports
    /\ EmptyGateway
    /\ calls = {}
    /\ last = NoCall

NextReg ==
    \/ \E id \in AgentIds, type \in AgentTypes, sh \in GatewayShells : create_agent(id, type, sh)
    \/ \E cid \in ChanIds, type \in ChannelTypes, aid \in AgentIds : create_channel(cid, type, aid)
    \/ \E cid \in ChanIds : remove_channel(cid)
    \/ \E aid \in AgentIds : remove_agent(aid)
    \/ \E k \in calls : ResumeStartSpawn(k)
    \/ \E k \in calls : ResumeCloseWs(k)
    \/ \E k \in calls : ResumeStopPtyTerminate(k)
    \/ \E k \in calls : ResumeStopPtyClose(k)
    \/ \E k \in calls : ResumeStopWait(k)
    \/ \E k \in calls : ResumeStopKillWait(k)
    \/ \E t \in RegTransports, cid \in ChanIds : terminal_ws(t, cid)
    \/ \E t \in RegTransports : hw_accept(t)
    \/ \E t \in RegTransports : hw_receive_disconnect(t)
    \/ \E p \in Pids : ProcessSignalled(p)
    \/ \E p \in Pids : ProcessReaped(p)

SpecReg == InitReg /\ [][NextReg]_vars

\* the agent o had a process and every process it had has terminated
Terminated(o) ==
    /\ Spawned(o) # {}
    /\ \A p \in Spawned(o) : procs[p].state = "exited"

\* C6: for any sequence of start() and stop() calls on one Agent, at most one
\* OS process is ever spawned in the Agent's lifetime: a start() after a
\* stop() does not restart it.
C6_AtMostOneProcessPerAgent ==
    \A o \in AgentObjs : Cardinality(Spawned(o)) <= 1

\* C10: send_input on an Agent whose process has already terminated (it
\* exited by itself, or the Agent was stopped) always fails with
\* ProcessExited; it never returns normally.
C10_SendInputAfterExitFails ==
    [][\A o \in AgentObjs, data \in InputData :
          (Terminated(o) /\ AgentSendInput(o, data))
              => (last' = Returned("send_input", a_agent_id[o], "ProcessExited"))]_vars




\* C1: when handle_websocket finds another transport T1 attached, T1 is closed
\* with reason "Replaced by new connection" before T2 is attached, and the
\* attach makes T2 the channel's (one) attached transport.
C1_ReplacedBeforeAttach ==
    /\ [](\A c \in ChanObjs : Cardinality({t \in Transports : c_websocket[c] = t}) <= 1)
    /\ [][\A t \in Transports :
             (hw_pc[t] \in {"accept", "close_old"} /\ hw_pc'[t] \notin {"accept", "close_old"})
                 => /\ c_websocket'[hw_chan[t]] = t
                    /\ hw_old'[t] # None =>
                           /\ ws_state[hw_old'[t]] = "closed"
                           /\ ws_reason[hw_old'[t]] = ReplacedReason]_vars

\* C1, with the transport that is disconnected already set apart: when
\* handle_websocket, resumed from accept(), finds another transport T1 attached
\* that is still connected on the server's side, it closes T1 with reason
\* "Replaced by new connection" before it attaches T2. A T1 that is
\* disconnected already (a send to it has failed, or a close() of the channel
\* has closed it) is left as it is: the attempt to close it raises at once and
\* is ignored. Either way T1 is disconnected when T2 is attached and from then
\* on, and the attach makes T2 the channel's transport.
C1_ReplacedUnlessDisconnected ==
    /\ [](\A t \in Transports :
             (hw_pc[t] \notin {"idle", "accept", "close_old"} /\ hw_old[t] # None)
                 => Disconnected(ws_state[hw_old[t]]))
    /\ [][\A t \in Transports :
             /\ (/\ hw_pc[t] = "accept"
                 /\ hw_pc'[t] # "accept"
                 /\ MustClose(hw_chan[t], t)
                 /\ ~Disconnected(ws_state[c_websocket[hw_chan[t]]]))
                    => /\ hw_pc'[t] = "close_old"
                       /\ c_websocket' = c_websocket
                       /\ ws_state'[c_websocket[hw_chan[t]]] = "closed"
                       /\ ws_reason'[c_websocket[hw_chan[t]]] = ReplacedReason
             /\ (hw_pc[t] \in {"accept", "close_old"} /\ hw_pc'[t] \notin {"accept", "close_old"})
                    => /\ c_websocket'[hw_chan[t]] = t
                       /\ hw_old'[t] # None => Disconnected(ws_state[hw_old'[t]])
                       /\ hw_pc[t] = "close_old" =>
                              /\ ws_state[hw_old[t]] = "closed"
                              /\ ws_reason[hw_old[t]] = ReplacedReason]_vars

\* a transport has replaced another, which it closed with the reason
C1_Witness ==
    \E t \in Transports :
        /\ hw_old[t] # None
        /\ hw_pc[t] = "receive"
        /\ c_websocket[hw_chan[t]] = t
        /\ ws_state[hw_old[t]] = "closed"
        /\ ws_reason[hw_old[t]] = ReplacedReason

\* C2: a transport attached to the channel gets every chunk produced after
\* its attach: chunk k of the agent, once produced, is eventually sent to the
\* transport t serving the channel (unless t stops serving it).
C2_EveryChunkDelivered ==
    \A t \in Transports : \A k \in 1..(MaxOut + 1) :
        (/\ Serving(t)
         /\ Len(ProducedFor(t)) >= k
         /\ k > ws_attach[t][1].at)
        ~> (\/ ~Serving(t)
            \/ Len(DataTexts(ws_sent[t])) >= k - ws_attach[t][1].at)

\* what does hold of C2: the chunks sent to a transport are, in order and each
\* once, the chunks produced after the ones on_agent_data had processed when it
\* was attached
C2_SentInOrderOnce ==
    \A t \in Transports :
        ws_attach[t] # <<>> =>
            LET texts == DataTexts(ws_sent[t])
                at == ws_attach[t][1].at IN
            /\ at + Len(texts) <= Len(ProducedFor(t))
            /\ \A i \in 1..Len(texts) : texts[i] = Decode(ProducedFor(t)[at + i])

\* C3: a transport that is attached is sent the full current history before
\* any output chunk on_agent_data processes after the attach.
C3_HistoryBeforeNewOutput ==
    \A t \in Transports :
        /\ ws_attach[t] = <<>> => ws_sent[t] = <<>>
        /\ ws_attach[t] # <<>> =>
            LET h == ws_attach[t][1].history
                at == ws_attach[t][1].at
                sent == ws_sent[t]
                texts == DataTexts(sent) IN
            /\ (h # <<>> /\ sent # <<>>) => sent[1] = Msg("history", h)
            /\ \A i \in 1..Len(sent) : sent[i].kind = "history" => (i = 1 /\ h # <<>>)
            /\ at + Len(texts) <= Len(ProducedFor(t))
            /\ \A i \in 1..Len(texts) : texts[i] = Decode(ProducedFor(t)[at + i])

C3_Witness ==
    \E t \in Transports :
        /\ Len(ws_sent[t]) >= 2
        /\ ws_sent[t][1].kind = "history"
        /\ ws_sent[t][2].kind = "data"
        /\ hw_old[t] # None

\* C4: after a transport disconnects or fails in any way the channel stays
\* open and its pump loop keeps consuming the agent's output: the pump task of
\* a registered channel has not ended.
C4_PumpKeepsRunning ==
    \A i \in ChanIds :
        g_channels[i] # None => c_pump_task[g_channels[i]] \in {"read", "send"}

\* C7: each channel in the live-channel map records an agent id that is in
\* the live-agent map or is the id of a remove_agent call still in progress.
C7_ChannelAgentLiveOrBeingRemoved ==
    \A cid \in ChanIds :
        g_channels[cid] # None =>
            LET aid == c_agent_id[g_channels[cid]] IN
            \/ g_agents[aid] # None
            \/ \E k \in calls : k.op = "remove_agent" /\ k.id = aid

C7_Witness ==
    \E cid \in ChanIds :
        /\ g_channels[cid] # None
        /\ g_agents[c_agent_id[g_channels[cid]]] = None
        /\ \E k \in calls : /\ k.op = "remove_agent"
                            /\ k.id = c_agent_id[g_channels[cid]]
                            /\ k.pc = "close_ws"

\* a step of a remove_agent(aid) call: the call itself or its resumption from
\* a channel's close()
RemoveAgentStep(aid) ==
    \/ g_agents[aid] # None /\ remove_agent(aid)
    \/ \E k \in calls : k.op = "remove_agent" /\ k.id = aid /\ ResumeCloseWs(k)

\* C8: remove_agent(A) removes the channels bound to A and leaves every channel
\* bound to a different agent registered, open (its pump task kept) and with
\* its attached transport unchanged.
C8_OtherChannelsUntouched ==
    [][\A aid \in AgentIds, cid \in ChanIds :
          (/\ RemoveAgentStep(aid)
           /\ g_channels[cid] # None
           /\ c_agent_id[g_channels[cid]] # aid)
              => /\ g_channels'[cid] = g_channels[cid]
                 /\ c_pump_task'[g_channels[cid]] = c_pump_task[g_channels[cid]]
                 /\ c_websocket'[g_channels[cid]] = c_websocket[g_channels[cid]]]_vars

\* C9: create_agent with an id in the live-agent map fails with AlreadyExists,
\* constructs and starts no agent, and leaves the agent map, the channel map
\* and the agents (processes, queues, reader tasks) unchanged.
C9_DuplicateAgentRefused ==
    [][\A id \in AgentIds, type \in AgentTypes, sh \in GatewayShells :
          (g_agents[id] # None /\ create_agent(id, type, sh))
              => /\ create_agent_result(id, type, sh) = "AlreadyExists"
                 /\ UNCHANGED <<agentVars, chanVars, gwVars, calls>>]_vars

\* an id is in use, its agent runs, and another agent could be constructed and
\* started: a create_agent with that id is refused here
C9_Witness ==
    \E id \in AgentIds :
        /\ g_agents[id] # None
        /\ ReaderProc(g_agents[id]) # None
        /\ a_made < MaxAgentObjs
        /\ Len(procs) < MaxProcs
        /\ Cardinality(calls) < MaxCalls

\* the handler of t is at a point where send_input, called or resumed, raises
InputFails(t) ==
    \/ /\ hw_pc[t] = "receive"
       /\ c_agent[hw_chan[t]] # None
       /\ IsError(SendInputNext(c_agent[hw_chan[t]], TRUE))
    \/ /\ hw_pc[t] = "send_pty_write"
       /\ IsError(SendPtyWriteNext(hw_pid[t]))

\* the step is the handler of t resumed from drain() by the error it raises
DrainFails(t) ==
    /\ hw_pc[t] = "send_drain"
    /\ "ConnectionLost" \in SendDrainNexts(c_agent[hw_chan[t]])
    /\ hw_send_drain_to(t, "ConnectionLost")

\* C11: on_client_data never propagates a failure of send_input: the failure
\* becomes a "[channel error]" notice on the attached transport (if any), the
\* transport stays attached and the handler's receive loop keeps running.
C11_InputFailureContained ==
    [][\A t \in Transports :
          (\/ (hw_receive_text(t) \/ hw_send_pty_write(t)) /\ InputFails(t)
           \/ DrainFails(t))
              => /\ hw_pc'[t] \in {"receive", "notify"}
                 /\ c_websocket' = c_websocket]_vars

\* what a create_agent(id, ...) whose start() failed on the agent object o
\* leaves behind
FailedStartLeavesNothing(id, o) ==
    /\ g_agents' = g_agents
    /\ procs' = procs
    /\ a_process' = a_process
    /\ a_pty_process' = a_pty_process
    /\ a_reader_task' = a_reader_task
    /\ a_process'[o] = None
    /\ a_pty_process'[o] = None
    /\ a_reader_task'[o] = "None"
    /\ g_agents[id] = None =>
          \A sh \in GatewayShells :
              (create_agent_result(id, "terminal", sh) # "AlreadyExists")'

\* C12: when start() fails inside create_agent (ProcessSpawnFailed) the
\* failure reaches the caller, the live-agent map is unchanged, no process and
\* no reader task is left running for that agent, and a later create_agent
\* with the same id is not refused with AlreadyExists.
C12_FailedStartLeavesNothing ==
    [][/\ \A id \in AgentIds, type \in AgentTypes, sh \in GatewayShells :
             (/\ create_agent_result(id, type, sh) = "ProcessSpawnFailed"
              /\ create_agent(id, type, sh))
                 => FailedStartLeavesNothing(id, a_made + 1)
       /\ \A k \in calls :
             (/\ k.op = "create_agent"
              /\ k.pc = "start_spawn"
              /\ StartSpawnNext(k.agent) = "ProcessSpawnFailed"
              /\ ResumeStartSpawn(k))
                 => FailedStartLeavesNothing(k.id, k.agent)]_vars

\* a create_agent has failed in start() after it was suspended in
\* create_subprocess_exec: its agent object exists, is in no call and is not
\* registered, while another agent is
C12_Witness ==
    \E o \in AgentObjs :
        /\ o <= a_made
        /\ platform = "posix"
        /\ a_shell[o] = "nosuch"
        /\ \A k \in calls : k.agent # o
        /\ g_agents[a_agent_id[o]] = None
        /\ \E id \in AgentIds : g_agents[id] # None

\* C13: a create_channel call on a channel id in use, an unknown channel type
\* or an agent id that is not in the live-agent map (an agent already removed,
\* or being removed, included) fails with AlreadyExists, UnknownType or
\* NotFound, leaves both maps unchanged, constructs no channel and starts no
\* pump task. (A step that changes nothing satisfies this as it is.)
C13_FailedCreateChannelChangesNothing ==
    [][vars' # vars =>
       \A cid \in ChanIds, type \in ChannelTypes, aid \in AgentIds :
          (/\ \/ g_channels[cid] # None
              \/ type # "web_terminal"
              \/ g_agents[aid] = None
           /\ create_channel(cid, type, aid))
              => /\ create_channel_result(cid, type, aid)
                        \in {"AlreadyExists", "UnknownType", "NotFound"}
                 /\ g_channels[cid] = None /\ type = "web_terminal"
                        => create_channel_result(cid, type, aid) = "NotFound"
                 /\ UNCHANGED <<agentVars, chanVars, gwVars, calls>>]_vars

\* a remove_agent call is suspended, its agent is out of the live-agent map, a
\* channel id is free and a channel object could still be constructed: a
\* create_channel for that agent is refused here
C13_Witness ==
    \E k \in calls, cid \in ChanIds :
        /\ k.op = "remove_agent"
        /\ g_agents[k.id] = None
        /\ g_channels[cid] = None
        /\ c_made < MaxChanObjs

\* the call that returned last on the agent o is a stop(), and no start() or
\* stop() of it is in progress
AlreadyStopped(o) ==
    /\ last = Returned("stop", a_agent_id[o], "None")
    /\ ~LifecycleBusy(o)

\* no process was ever spawned for o and no start() or stop() is in progress
NeverStarted(o) ==
    /\ Spawned(o) = {}
    /\ ~LifecycleBusy(o)

\* C14: stop() on an Agent that is already stopped or was never started
\* returns at once without an error: it spawns nothing, signals no process
\* and leaves the handles, the reader task and the queue as they are.
C14_StopIsIdempotent ==
    [][\A o \in AgentObjs :
          ((AlreadyStopped(o) \/ NeverStarted(o)) /\ AgentStop(o))
              => /\ last' = Returned("stop", a_agent_id[o], "None")
                 /\ UNCHANGED <<agentVars, calls>>]_vars

\* an agent that ran has been stopped, and another stop() can be called
C14_Witness ==
    \E o \in AgentObjs :
        /\ o <= a_made
        /\ AlreadyStopped(o)
        /\ Spawned(o) # {}
        /\ Cardinality(calls) < MaxCalls

\* what the process p gets when the client message `text` is written to it:
\* the bytes of the text on a pipe, its characters on a pty
Delivered(p, text) == IF procs[p].backend = "pipe" THEN Encode(text) ELSE text

\* the places of the k-th client message in what was written to p
WrittenAt(p, k) ==
    {i \in 1..Len(procs[p].stdin) : procs[p].stdin[i] = Delivered(p, ClientText(k))}

\* the handler that received the k-th client message is suspended in the
\* write of it
BeingWritten(k) ==
    /\ hw_pc[ws_in[k]] = "send_pty_write"
    /\ hw_data[ws_in[k]] = Encode(ClientText(k))

\* C15: the messages a transport delivers to handle_websocket reach the
\* agent's process in the order the transport received them, each once and
\* unmodified, as long as the process is alive: what was written to the
\* process is client messages only, none twice, two messages of one transport
\* in their order, and while the process runs every message whose write is
\* not still in progress has been written.
C15_InputInOrderOnceUnmodified ==
    \A p \in Pids :
        LET received == 1..Len(ws_in) IN
        /\ \A i \in 1..Len(procs[p].stdin) : \E k \in received : i \in WrittenAt(p, k)
        /\ \A k \in received : Cardinality(WrittenAt(p, k)) <= 1
        /\ \A k1, k2 \in received :
              (k1 < k2 /\ ws_in[k1] = ws_in[k2]) =>
                  \A i \in WrittenAt(p, k1), j \in WrittenAt(p, k2) : i < j
        /\ procs[p].state = "running" =>
              \A k \in received : ~BeingWritten(k) => WrittenAt(p, k) # {}

\* two messages that came in on one transport have been written to the running
\* process behind a pty
C15_Witness ==
    \E p \in Pids :
        /\ procs[p].backend = "pty"
        /\ procs[p].state = "running"
        /\ Len(ws_in) = 2
        /\ ws_in[1] = ws_in[2]
        /\ Len(procs[p].stdin) = 2

\* the step is the exit of the handle_websocket call of t through its finally
\* (lines 67-76)
HandlerExits(t) ==
    /\ hw_pc[t] \notin {"idle", "done", "crashed"}
    /\ hw_pc'[t] = "done"

\* the step is the exit of the call of t by the error the replay of the
\* history raised (line 61, outside the try): t was attached just before
HandlerCrashes(t) ==
    /\ hw_pc[t] \notin {"idle", "done", "crashed"}
    /\ hw_pc'[t] = "crashed"

\* the exits change the channel's transport reference in one way only: from
\* the exiting call's own transport to None
C16_ExitClearsOwnReferenceOnly ==
    [][\A t \in Transports :
          /\ HandlerExits(t) =>
                LET c == hw_chan[t] IN
                /\ c_websocket[c] # t => c_websocket'[c] = c_websocket[c]
                /\ c_websocket[c] = t => c_websocket'[c] = None
          /\ HandlerCrashes(t) => c_websocket'[hw_chan[t]] = t]_vars

\* C16: when the handle_websocket call of T1 exits it clears the channel's
\* transport reference only if the reference is T1; when T2 has replaced T1 by
\* then, T2 stays attached and keeps receiving output (the channel's pump task
\* is running).
C16_ReplacementKeepsOutput ==
    [][\A t \in Transports :
          HandlerExits(t) =>
              LET c == hw_chan[t]
                  t2 == c_websocket[c] IN
              /\ t2 # t => c_websocket'[c] = t2
              /\ (t2 \notin {None, t} /\ ws_state[t2] = "open")
                    => c_pump_task'[c] \in {"read", "send"}]_vars

\* the call that returned last on the channel c is an open(), and no close()
\* of it has begun since
OpenedNotClosed(c) ==
    /\ c <= c_made
    /\ last = Returned("open", c_channel_id[c], "None")
    /\ \A k \in calls : ~(k.op = "close" /\ k.chan = c)

\* an open() on a channel that has a pump task creates none, and a close()
\* leaves the channel without one from its first step on
C17_OpenStartsNoSecondLoop ==
    [][\A c \in ChanObjs :
          /\ (c_pump_task[c] # "None" /\ ChannelOpen(c)) => c_pump_task' = c_pump_task
          /\ ChannelClose(c) => c_pump_task'[c] = "None"]_vars

\* C17: between a completed open() and the next close() exactly one pump loop
\* is running for the channel, whatever the transports do in between.
C17_OnePumpWhileOpen ==
    \A c \in ChanObjs :
        OpenedNotClosed(c) => c_pump_task[c] \in {"read", "send"}

\* s ends with q
IsSuffix(q, s) ==
    /\ Len(q) <= Len(s)
    /\ SubSeq(s, Len(s) - Len(q) + 1, Len(s)) = q

\* the sentinel is nowhere in s but at its end
SentinelLast(s) == \A i \in 1..Len(s) : s[i] = AgentExited => i = Len(s)

\* the same for an agent that was not started again after a stop()
C18_SentinelLastInOneRun ==
    /\ [](\A o \in AgentObjs :
             Cardinality(Spawned(o)) <= 1 =>
                 /\ SentinelLast(a_produced[o])
                 /\ IsSuffix(a_queue[o], a_produced[o]))
    /\ [][\A o \in AgentObjs :
             (Cardinality(Spawned(o)') <= 1 /\ a_reader_task[o] = "finished")
                 => a_reader_task'[o] # "running"]_vars

\* C18: at the end of the process's output the reader enqueues one sentinel
\* chunk, after every real chunk, and ends for good; read_output returns the
\* chunks in the order they were enqueued, so the sentinel is the last chunk a
\* consumer ever reads from the Agent.
C18_SentinelIsLastChunk ==
    /\ [](\A o \in AgentObjs :
             /\ SentinelLast(a_produced[o])
             /\ IsSuffix(a_queue[o], a_produced[o]))
    /\ [][\A o \in AgentObjs :
             a_reader_task[o] = "finished" => a_reader_task'[o] # "running"]_vars

\* the step is the one in which a remove_agent call invokes stop() on the agent
\* object o: the call itself or its resumption from a channel's close(), when
\* it is not left suspended in (another) close()
StopInvoked(o) ==
    /\ \/ \E aid \in AgentIds : g_agents[aid] = o /\ remove_agent(aid)
       \/ \E k \in calls : /\ k.op = "remove_agent"
                           /\ k.agent = o
                           /\ k.pc = "close_ws"
                           /\ ResumeCloseWs(k)
    /\ \A k \in calls' \ calls : k.pc # "close_ws"

\* the channel object c is out of the live-channel map and no close() of it is
\* in progress
RemovedAndClosed(c) ==
    /\ g_channels[c_channel_id[c]] # c
    /\ \A k \in calls : ~(k.pc = "close_ws" /\ k.chan = c)

\* the same when no remove_channel call overlaps the remove_agent call
C19_ClosedBeforeStopWithoutOverlap ==
    [][vars' # vars =>
       \A o \in AgentObjs :
          (StopInvoked(o) /\ \A k \in calls : k.op # "remove_channel") =>
              \A c \in ChanObjs : (c <= c_made /\ c_agent[c] = o) => RemovedAndClosed(c)']_vars

\* C19: in remove_agent(A) every channel bound to A has been removed from the
\* live-channel map and its close() has completed before A's stop() is
\* invoked, and A is not in the live-agent map while the call goes on and when
\* it returns true; remove_agent on an id that is not registered returns false
\* and changes nothing. (A step that changes nothing satisfies the first
\* part as it is.)
C19_ChannelsClosedBeforeStop ==
    /\ [][vars' # vars =>
          \A o \in AgentObjs :
             StopInvoked(o) =>
                 \A c \in ChanObjs : (c <= c_made /\ c_agent[c] = o) => RemovedAndClosed(c)']_vars
    /\ [](\A k \in calls : k.op = "remove_agent" => \A id \in AgentIds : g_agents[id] # k.agent)
    /\ [][\A aid \in AgentIds :
             (g_agents[aid] = None /\ remove_agent(aid))
                 => remove_agent_result(aid) = "False" /\ UNCHANGED vars]_vars

\* the handle_websocket call of t has passed the attach step (line 59) and has
\* not left its receive loop
PastAttach(t) ==
    hw_pc[t] \in {"replay", "receive", "send_drain", "send_pty_write", "notify"}

\* C20: when handle_websocket calls overlap on one channel, then of two
\* transports that have passed the attach step one is the attached transport
\* and the other has been closed: no accepted transport is open, in its
\* receive loop and not the channel's attached transport.
C20_OnlyAttachedTransportServes ==
    /\ \A t \in Transports :
          (PastAttach(t) /\ ws_state[t] = "open") => c_websocket[hw_chan[t]] = t
    /\ \A t2, t3 \in Transports :
          (/\ t2 # t3
           /\ PastAttach(t2)
           /\ PastAttach(t3)
           /\ hw_chan[t2] = hw_chan[t3])
              => \E t \in {t2, t3} : ws_state[t] = "closed"

\* the channel object c has been removed: it is out of the live-channel map
\* and the remove_channel call that popped it has returned (no close() of it
\* is in progress)
Removed(c) ==
    /\ c # None
    /\ c <= c_made
    /\ g_channels[c_channel_id[c]] # c
    /\ \A k \in calls : ~(k.pc = "close_ws" /\ k.chan = c)

\* C21: once remove_channel(id) has returned true the removed channel never
\* again has a transport attached and never forwards client input to its
\* agent, also when a handle_websocket call for it was suspended in accept()
\* while close() ran.
C21_RemovedChannelStaysDetached ==
    /\ [](\A c \in ChanObjs : Removed(c) => c_websocket[c] = None)
    /\ [][\A t \in Transports :
             (Removed(hw_chan[t]) /\ hw_receive_text(t))
                 => /\ procs' = procs
                    /\ hw_pc'[t] \notin {"send_drain", "send_pty_write"}]_vars

\* the second part alone: a handler of a removed channel passes no client
\* message to send_input
C21_RemovedChannelForwardsNothing ==
    [][\A t \in Transports :
          (Removed(hw_chan[t]) /\ hw_receive_text(t))
              => /\ procs' = procs
                 /\ hw_pc'[t] \notin {"send_drain", "send_pty_write"}]_vars

====
